---- MODULE Spec2Model ----
(***************************************************************************)
(* NoteProhibitService: the gate isProhibitedNote and the recursive        *)
(* formula evaluator evalcond                                              *)
(* (packages/backend/src/core/NoteProhibitService.ts).                     *)
(*                                                                         *)
(* Conventions.  A JavaScript object is a record.  A property that is      *)
(* null or undefined is modelled by the absence of the field, and the      *)
(* value undefined/null standing where an object is expected is the        *)
(* record Undefined.  A call that may throw returns a record               *)
(* [thrown, val]; evaluator calls also return the list of nodes they       *)
(* were called on (visited), each node named by its path from the root.    *)
(***************************************************************************)
EXTENDS Integers, Sequences, FiniteSets, TLC

VARIABLES store, kw, subject, pc, formula, user, roles,
          outcome, result, error, raised, calls, visited

vars == <<store, kw, subject, pc, formula, user, roles,
          outcome, result, error, raised, calls, visited>>

----------------------------------------------------------------------------
(* Bounds *)

\* formulas of the structural specification have at most MaxNodes nodes
MaxNodes == 3
\* file sizes and size thresholds range over 0..MaxSize
MaxSize == 2
\* file lists have at most MaxFiles files
MaxFiles == 2

----------------------------------------------------------------------------
(* JavaScript values *)

Undefined == [undefined |-> TRUE]

Has(o, fld) == o # Undefined /\ fld \in DOMAIN o

\* the switch discriminant formula.type of an object
TypeOf(f) == IF "type" \in DOMAIN f THEN f.type ELSE "<undefined>"

\* the type of the configuration when no formula is set ({ type: null })
Null == "<null>"

\* JavaScript truthiness of a string-or-nullish property
Truthy(o, fld) == Has(o, fld) /\ o[fld] \notin {"", Null}

Returned(b) == [thrown |-> FALSE, val |-> b]
Thrown == [thrown |-> TRUE, val |-> FALSE]

RECURSIVE Sum(_)
Sum(s) == IF s = <<>> THEN 0 ELSE Head(s) + Sum(Tail(s))

Abs(n) == IF n < 0 THEN -n ELSE n

----------------------------------------------------------------------------
(* Collaborators *)

Patterns == {"spam"}
Texts == {"", "alice", "bob", "Bob", "spam", "cat"}
KwOutcomes == {"match", "nomatch", "throw"}

\* utilityService.isKeyWordIncluded(text, [pattern]): the matcher is an
\* oracle fixed for the run; it answers or throws
isKeyWordIncluded(text, pattern) ==
    LET o == kw[<<text, pattern>>]
    IN  IF o = "throw" THEN Thrown ELSE Returned(o = "match")

\* blurhash decode(hash, 5, 5): a component grid, or a decode error
Grids == [LA |-> <<0, 0>>, LB |-> <<1, 2>>]
decode(h) ==
    IF h \in DOMAIN Grids THEN [thrown |-> FALSE, val |-> Grids[h]]
    ELSE [thrown |-> TRUE, val |-> <<>>]

FILE_TYPE_BROWSERSAFE == {"image/png", "video/mp4"}

StartsWithImage(t) == t \in {"image/png", "image/x-icon"}

\* cacheService.findUserById / roleService.getUserRoles answer from these
UserIds == {"u1", "u2", "u3"}
UserDb == [u1 |-> [id |-> "u1", username |-> "alice"],
           u2 |-> [id |-> "u2", username |-> "bob", name |-> "Bob"],
           u3 |-> [id |-> "u3", username |-> "cat", name |-> "cat"]]
RoleDb == [u1 |-> << >>,
           u2 |-> <<[id |-> "user"]>>,
           u3 |-> <<[id |-> "user"], [id |-> "admin"]>>]

Errors == {"E1", "E2"}

----------------------------------------------------------------------------
(* Leaf predicates of evalcond (lines 71-163) *)

Files(subj) == IF Has(subj, "files") THEN subj.files ELSE <<>>

\* case 'hasFileSizeMoreThanOrEq': files?.some(f => f.size >= size) ?? false
hasFileSizeMoreThanOrEq(subj, f) ==
    IF Has(subj, "files")
    THEN \E i \in 1..Len(subj.files) : subj.files[i].size >= f.size
    ELSE FALSE

hasFileSizeLessThan_defaultFalse(subj, f) ==
    IF Has(subj, "files")
    THEN \E i \in 1..Len(subj.files) : subj.files[i].size < f.size
    ELSE FALSE

\* case 'hasFileSizeLessThan': files?.some(f => f.size < size) ?? true
hasFileSizeLessThan(subj, f) ==
    IF Has(subj, "files")
    THEN \E i \in 1..Len(subj.files) : subj.files[i].size < f.size
    ELSE TRUE

\* case 'hasLikelyBlurhash': the inner try/catch turns a decode error of the
\* target hash into false, and the per-file one into false for that file
hasLikelyBlurhash(subj, f) ==
    LET k == decode(f.hash)
        Diff(g) == Sum([n \in 1..Len(g) |-> Abs(g[n] - k.val[n])])
        Likely(file) == /\ Has(file, "blurhash")
                        /\ ~decode(file.blurhash).thrown
                        /\ Diff(decode(file.blurhash).val) <= f.diff
    IN  IF k.thrown THEN FALSE
        ELSE \E i \in 1..Len(Files(subj)) : Likely(Files(subj)[i])

\* case 'hasHashtagMatchOf': hashtags.some(h => isKeyWordIncluded(h, [value]));
\* some stops at the first match, and a throw before it aborts the scan
RECURSIVE hasHashtagMatchOf(_, _, _)
hasHashtagMatchOf(subj, f, i) ==
    IF i > Len(subj.hashtags) THEN Returned(FALSE)
    ELSE LET m == isKeyWordIncluded(subj.hashtags[i], f.value)
         IN  IF m.thrown \/ m.val THEN m
             ELSE hasHashtagMatchOf(subj, f, i + 1)

LeafKinds ==
    {"true", "false", "usernameMatchOf", "nameMatchOf", "nameIsDefault",
     "roleAssignedOf", "hasText", "textMatchOf", "hasMentions",
     "mentionCountIs", "mentionCountMoreThanOrEq", "mentionCountLessThan",
     "isReply", "isQuoted", "hasFiles", "fileCountIs",
     "fileCountMoreThanOrEq", "fileCountLessThan",
     "fileTotalSizeMoreThanOrEq", "fileTotalSizeLessThan",
     "hasFileSizeMoreThanOrEq", "hasFileSizeLessThan", "hasFileMD5Is",
     "hasBrowserInsafe", "hasPictures", "hasLikelyBlurhash", "hasHashtags",
     "hashtagCountIs", "hashtagCountMoreThanOrEq", "hashtagCountLessThan",
     "hasHashtagMatchOf"}

StructuralKinds == {"and", "or", "not"}

DefaultCase_true == Returned(TRUE)

\* default: return false
DefaultCase == Returned(FALSE)

\* the leaf cases of the switch; a case either returns or throws
Leaf(subj, usr, rls, f) ==
    LET t == TypeOf(f)
        fileCount == Len(Files(subj))
        totalSize == Sum([i \in 1..fileCount |-> Files(subj)[i].size])
        files == Files(subj)
    IN  CASE t = "true" -> Returned(TRUE)
          [] t = "false" -> Returned(FALSE)
          [] t = "usernameMatchOf" ->
                isKeyWordIncluded(usr.username, f.pattern)
          [] t = "nameMatchOf" ->
                isKeyWordIncluded(IF Has(usr, "name") THEN usr.name ELSE "",
                                  f.pattern)
          [] t = "nameIsDefault" ->
                Returned(IF Truthy(usr, "name")
                         THEN usr.name = usr.username ELSE TRUE)
          [] t = "roleAssignedOf" ->
                Returned(\E i \in 1..Len(rls) : rls[i].id = f.roleId)
          [] t = "hasText" -> Returned(Has(subj, "text"))
          [] t = "textMatchOf" ->
                isKeyWordIncluded(IF Has(subj, "text") THEN subj.text
                                  ELSE "", f.pattern)
          [] t = "hasMentions" ->
                Returned(IF Has(subj, "reply") THEN TRUE
                         ELSE Len(subj.mentions) > 0)
          [] t = "mentionCountIs" ->
                Returned(Len(subj.mentions) = f.value)
          [] t = "mentionCountMoreThanOrEq" ->
                Returned(Len(subj.mentions) >= f.value)
          [] t = "mentionCountLessThan" ->
                Returned(Len(subj.mentions) < f.value)
          [] t = "isReply" -> Returned(Has(subj, "reply"))
          [] t = "isQuoted" -> Returned(Has(subj, "renote"))
          [] t = "hasFiles" ->
                Returned(IF Has(subj, "files")
                         THEN Len(subj.files) > 0 ELSE FALSE)
          [] t = "fileCountIs" -> Returned(fileCount = f.value)
          [] t = "fileCountMoreThanOrEq" -> Returned(fileCount >= f.value)
          [] t = "fileCountLessThan" -> Returned(fileCount < f.value)
          [] t = "fileTotalSizeMoreThanOrEq" -> Returned(totalSize >= f.size)
          [] t = "fileTotalSizeLessThan" -> Returned(totalSize < f.size)
          [] t = "hasFileSizeMoreThanOrEq" ->
                Returned(hasFileSizeMoreThanOrEq(subj, f))
          [] t = "hasFileSizeLessThan" ->
                Returned(hasFileSizeLessThan(subj, f))
          [] t = "hasFileMD5Is" ->
                Returned(\E i \in 1..fileCount : files[i].md5 = f.hash)
          [] t = "hasBrowserInsafe" ->
                Returned(\E i \in 1..fileCount :
                            files[i].type \notin FILE_TYPE_BROWSERSAFE)
          [] t = "hasPictures" ->
                Returned(\E i \in 1..fileCount :
                            StartsWithImage(files[i].type))
          [] t = "hasLikelyBlurhash" -> Returned(hasLikelyBlurhash(subj, f))
          [] t = "hasHashtags" -> Returned(Len(subj.hashtags) > 0)
          [] t = "hashtagCountIs" ->
                Returned(Len(subj.hashtags) = f.value)
          [] t = "hashtagCountMoreThanOrEq" ->
                Returned(Len(subj.hashtags) >= f.value)
          [] t = "hashtagCountLessThan" ->
                Returned(Len(subj.hashtags) < f.value)
          [] t = "hasHashtagMatchOf" -> hasHashtagMatchOf(subj, f, 1)
          [] OTHER -> DefaultCase

----------------------------------------------------------------------------
(* evalcond (lines 53-171) *)

Visit(r, path) == [thrown |-> r.thrown, val |-> r.val, visited |-> <<path>>]

RECURSIVE evalcond(_, _, _, _, _)
RECURSIVE Switch(_, _, _, _, _)
RECURSIVE every(_, _, _, _, _, _)
RECURSIVE some(_, _, _, _, _, _)

every_all(subj, usr, rls, values, path, i) ==
    IF i > Len(values)
    THEN [thrown |-> FALSE, val |-> TRUE, visited |-> <<>>]
    ELSE LET c == evalcond(subj, usr, rls, values[i], Append(path, i))
             rest == every(subj, usr, rls, values, path, i + 1)
         IN  IF c.thrown THEN c
             ELSE [thrown |-> rest.thrown,
                   val |-> ~rest.thrown /\ c.val /\ rest.val,
                   visited |-> c.visited \o rest.visited]

every_some(subj, usr, rls, values, path, i) ==
    some(subj, usr, rls, values, path, i)

\* values.every(v => this.evalcond(subject, user, roles, v)), from child i on:
\* left to right, stopping at the first child that is false (or throws)
every(subj, usr, rls, values, path, i) ==
    IF i > Len(values)
    THEN [thrown |-> FALSE, val |-> TRUE, visited |-> <<>>]
    ELSE LET c == evalcond(subj, usr, rls, values[i], Append(path, i))
             rest == every(subj, usr, rls, values, path, i + 1)
         IN  IF c.thrown \/ ~c.val THEN c
             ELSE [thrown |-> rest.thrown, val |-> rest.val,
                   visited |-> c.visited \o rest.visited]

\* values.some(v => this.evalcond(subject, user, roles, v)), from child i on:
\* left to right, stopping at the first child that is true (or throws)
some(subj, usr, rls, values, path, i) ==
    IF i > Len(values)
    THEN [thrown |-> FALSE, val |-> FALSE, visited |-> <<>>]
    ELSE LET c == evalcond(subj, usr, rls, values[i], Append(path, i))
             rest == some(subj, usr, rls, values, path, i + 1)
         IN  IF c.thrown \/ c.val THEN c
             ELSE [thrown |-> rest.thrown, val |-> rest.val,
                   visited |-> c.visited \o rest.visited]

Prepend(path, r) ==
    [thrown |-> r.thrown, val |-> r.val, visited |-> <<path>> \o r.visited]

NotCase_same(subj, usr, rls, f, path) ==
    evalcond(subj, usr, rls,
             IF Has(f, "value") THEN f.value ELSE Undefined, Append(path, 1))

\* case 'not': return !this.evalcond(subject, user, roles, formula.value)
NotCase(subj, usr, rls, f, path) ==
    LET c == evalcond(subj, usr, rls,
                      IF Has(f, "value") THEN f.value ELSE Undefined,
                      Append(path, 1))
    IN  [thrown |-> c.thrown, val |-> ~c.thrown /\ ~c.val,
         visited |-> c.visited]

\* the body of the try block: switch (formula.type) { ... }
Switch(subj, usr, rls, f, path) ==
    IF f = Undefined THEN Visit(Thrown, path)
    ELSE LET t == TypeOf(f)
         IN  CASE t = "and" ->
                    IF Has(f, "values")
                    THEN Prepend(path,
                                 every(subj, usr, rls, f.values, path, 1))
                    ELSE Visit(Thrown, path)
               [] t = "or" ->
                    IF Has(f, "values")
                    THEN Prepend(path,
                                 some(subj, usr, rls, f.values, path, 1))
                    ELSE Visit(Thrown, path)
               [] t = "not" ->
                    Prepend(path, NotCase(subj, usr, rls, f, path))
               [] OTHER -> Visit(Leaf(subj, usr, rls, f), path)

evalcond_nocatch(subj, usr, rls, f, path) ==
    Switch(subj, usr, rls, f, path)

evalcond_catchtrue(subj, usr, rls, f, path) ==
    LET r == Switch(subj, usr, rls, f, path)
    IN  IF r.thrown
        THEN [thrown |-> FALSE, val |-> TRUE, visited |-> r.visited]
        ELSE r

evalcond_outeronly(subj, usr, rls, f, path) ==
    LET r == Switch(subj, usr, rls, f, path)
    IN  IF r.thrown /\ path = <<>>
        THEN [thrown |-> FALSE, val |-> FALSE, visited |-> r.visited]
        ELSE r

\* try { switch ... } catch (err) { return false; }
evalcond(subj, usr, rls, f, path) ==
    LET r == Switch(subj, usr, rls, f, path)
    IN  IF r.thrown
        THEN [thrown |-> FALSE, val |-> FALSE, visited |-> r.visited]
        ELSE r

----------------------------------------------------------------------------
(* The inputs: formulas, subjects, matcher oracles *)

True == [type |-> "true"]
False == [type |-> "false"]
And(vs) == [type |-> "and", values |-> vs]
Or(vs) == [type |-> "or", values |-> vs]
Not(v) == [type |-> "not", value |-> v]
\* a leaf whose evaluation calls the keyword matcher
KwLeaf == [type |-> "usernameMatchOf", pattern |-> "spam"]
\* a kind that is not in the catalogue
Unrecognized == [type |-> "futureKind"]
\* structural nodes whose children are missing
AndNoValues == [type |-> "and"]
OrNoValues == [type |-> "or"]
NotNoValue == [type |-> "not"]
\* the configuration without a formula
Unset == [type |-> Null]

StructLeaves == {True, False, KwLeaf, Unrecognized}
Malformed == {AndNoValues, OrNoValues, NotNoValue, Undefined}

\* Trees(n): the nodes (Undefined children included) of exactly n nodes
RECURSIVE Trees(_)
RECURSIVE ChildLists(_)
ChildLists(k) ==
    IF k = 0 THEN {<<>>}
    ELSE UNION {{<<c>> \o cs : c \in Trees(i), cs \in ChildLists(k - i)} :
                i \in 1..k}
Trees(n) ==
    IF n = 1 THEN StructLeaves \cup Malformed \cup {And(<<>>), Or(<<>>)}
    ELSE {Not(c) : c \in Trees(n - 1)}
         \cup {And(cs) : cs \in ChildLists(n - 1)}
         \cup {Or(cs) : cs \in ChildLists(n - 1)}

Formulas == (UNION {Trees(n) : n \in 1..MaxNodes}) \ {Undefined}

Sizes == 0..MaxSize

File(size) == [size |-> size, md5 |-> "d41d", type |-> "image/png"]
OtherFiles == {[size |-> MaxSize, md5 |-> "9e10", type |-> "application/x-sh",
                blurhash |-> "LB"],
               [size |-> 0, md5 |-> "d41d", type |-> "image/x-icon",
                blurhash |-> "??"]}
FileLists ==
    UNION {[1..n -> {File(sz) : sz \in Sizes}] : n \in 0..MaxFiles}
    \cup {<<f>> : f \in OtherFiles}

Note == [id |-> "n1"]
BaseSubject(uid) == [userId |-> uid, mentions |-> <<>>, hashtags |-> <<>>]
With(s, fld, v) == [x \in DOMAIN s \cup {fld} |-> IF x = fld THEN v ELSE s[x]]

StructSubjects == {BaseSubject("u1")}
LeafSubjects ==
    {BaseSubject(uid) : uid \in UserIds}
    \cup {With(BaseSubject("u1"), "files", fl) : fl \in FileLists}
    \cup {With(BaseSubject("u2"), "text", t) : t \in {"", "spam"}}
    \cup {With(BaseSubject("u2"), "reply", Note),
          With(BaseSubject("u2"), "renote", Note)}
    \cup {With(BaseSubject("u3"), "mentions", m) :
            m \in {<<[username |-> "bob"]>>,
                   <<[username |-> "bob"], [username |-> "cat", host |-> "x"]>>}}
    \cup {With(BaseSubject("u3"), "hashtags", h) :
            h \in {<<"cat">>, <<"cat", "spam">>, <<"spam", "cat">>}}

LeafFormulas ==
    {[type |-> t] : t \in {"true", "false", "nameIsDefault", "hasText",
                            "hasMentions", "isReply", "isQuoted", "hasFiles",
                            "hasPictures", "hasBrowserInsafe", "hasHashtags",
                            "futureKind"}}
    \cup {[type |-> t, pattern |-> p] :
            t \in {"usernameMatchOf", "nameMatchOf", "textMatchOf"},
            p \in Patterns}
    \cup {[type |-> "hasHashtagMatchOf", value |-> p] : p \in Patterns}
    \cup {[type |-> "roleAssignedOf", roleId |-> r] : r \in {"admin", "user"}}
    \cup {[type |-> t, value |-> n] :
            t \in {"mentionCountIs", "mentionCountMoreThanOrEq",
                   "mentionCountLessThan", "fileCountIs",
                   "fileCountMoreThanOrEq", "fileCountLessThan",
                   "hashtagCountIs", "hashtagCountMoreThanOrEq",
                   "hashtagCountLessThan"},
            n \in 0..MaxFiles}
    \cup {[type |-> t, size |-> n] :
            t \in {"fileTotalSizeMoreThanOrEq", "fileTotalSizeLessThan",
                   "hasFileSizeMoreThanOrEq", "hasFileSizeLessThan"},
            n \in 0..(MaxSize + 1)}
    \cup {[type |-> "hasFileMD5Is", hash |-> h] : h \in {"d41d", "9e10"}}
    \cup {[type |-> "hasLikelyBlurhash", hash |-> h, diff |-> d] :
            h \in {"LA", "LB", "??"}, d \in {0, MaxSize + 1}}

\* matcher oracles: the same answer for every text, or an exact match
UniformOracles == {[x \in Texts \X Patterns |-> o] : o \in KwOutcomes}
ExactOracle == [x \in Texts \X Patterns |->
                    IF x[1] = x[2] THEN "match" ELSE "nomatch"]

----------------------------------------------------------------------------
(* isProhibitedNote (lines 41-50): one request *)

HasFormula_always(f) == TRUE

\* if (formula.type)
HasFormula(f) == Truthy(f, "type")

Start(stores, oracles, subjects) ==
    /\ store \in stores
    /\ kw \in oracles
    /\ subject \in subjects
    /\ pc = "fetch"
    /\ formula = Undefined
    /\ user = Undefined
    /\ roles = <<>>
    /\ outcome = "pending"
    /\ result = FALSE
    /\ error = ""
    /\ raised = ""
    /\ calls = <<>>
    /\ visited = <<>>

Init == Start(Formulas \cup {Unset}, UniformOracles, StructSubjects)

InitLeaf == Start(LeafFormulas \cup {Unset},
                  UniformOracles \cup {ExactOracle}, LeafSubjects)

Reject_swallow(name, e) ==
    /\ calls' = Append(calls, name)
    /\ raised' = e
    /\ error' = ""
    /\ outcome' = "resolved"
    /\ pc' = "done"

\* a collaborator throws e: the await rethrows it and the promise rejects
Reject(name, e) ==
    /\ calls' = Append(calls, name)
    /\ raised' = e
    /\ error' = e
    /\ outcome' = "rejected"
    /\ pc' = "done"

\* await this.metaService.fetch() fails
FetchFail ==
    /\ pc = "fetch"
    /\ \E e \in Errors : Reject("fetch", e)
    /\ UNCHANGED <<store, kw, subject, formula, user, roles, result, visited>>

\* metaService.fetch() answers; without a formula the request returns false
FetchOk ==
    /\ pc = "fetch"
    /\ formula' = store
    /\ calls' = Append(calls, "fetch")
    /\ IF HasFormula(store)
       THEN /\ pc' = "findUser"
            /\ UNCHANGED <<outcome, result>>
       ELSE /\ pc' = "done"
            /\ outcome' = "resolved"
            /\ result' = FALSE
    /\ UNCHANGED <<store, kw, subject, user, roles, error, raised, visited>>

\* await this.cacheService.findUserById(subject.userId) fails
FindUserFail ==
    /\ pc = "findUser"
    /\ \E e \in Errors : Reject("findUserById", e)
    /\ UNCHANGED <<store, kw, subject, formula, user, roles, result, visited>>

FindUserOk ==
    /\ pc = "findUser"
    /\ user' = UserDb[subject.userId]
    /\ calls' = Append(calls, "findUserById")
    /\ pc' = "getRoles"
    /\ UNCHANGED <<store, kw, subject, formula, roles, outcome, result,
                   error, raised, visited>>

\* await this.roleService.getUserRoles(subject.userId) fails
GetRolesFail ==
    /\ pc = "getRoles"
    /\ \E e \in Errors : Reject("getUserRoles", e)
    /\ UNCHANGED <<store, kw, subject, formula, user, roles, result, visited>>

\* the roles arrive and the request returns this.evalcond(...)
GetRolesOk ==
    /\ pc = "getRoles"
    /\ roles' = RoleDb[subject.userId]
    /\ LET r == evalcond(subject, user, roles', formula, <<>>)
       IN  /\ calls' = calls \o <<"getUserRoles", "evalcond">>
           /\ visited' = r.visited
           /\ IF r.thrown
              THEN /\ outcome' = "rejected"
                   /\ error' = "EvalError"
                   /\ UNCHANGED result
              ELSE /\ outcome' = "resolved"
                   /\ result' = r.val
                   /\ UNCHANGED error
    /\ pc' = "done"
    /\ UNCHANGED <<store, kw, subject, formula, user, raised>>

Next ==
    \/ FetchFail
    \/ FetchOk
    \/ FindUserFail
    \/ FindUserOk
    \/ GetRolesFail
    \/ GetRolesOk

Spec == Init /\ [][Next]_vars

SpecLeaf == InitLeaf /\ [][Next]_vars

----------------------------------------------------------------------------
(* Vocabulary of the properties below *)

Done == pc = "done"

\* the request reached the evaluator
Ran == calls # <<>> /\ calls[Len(calls)] = "evalcond"

\* what the evaluator answers for f on the request's subject, user and roles
Eval(f) == evalcond(subject, user, roles, f, <<>>)

Child(f, i) ==
    IF TypeOf(f) = "not"
    THEN (IF Has(f, "value") THEN f.value ELSE Undefined)
    ELSE f.values[i]

RECURSIVE NodeAt(_, _)
NodeAt(f, path) ==
    IF path = <<>> THEN f ELSE NodeAt(Child(f, Head(path)), Tail(path))

Front(path) == SubSeq(path, 1, Len(path) - 1)
Last(path) == path[Len(path)]

\* the node itself raises: it is missing, it is an and/or without a child
\* list, or it is a leaf whose case throws
OwnFailure(f) ==
    \/ f = Undefined
    \/ TypeOf(f) \in {"and", "or"} /\ ~Has(f, "values")
    \/ TypeOf(f) \notin StructuralKinds /\ Leaf(subject, user, roles, f).thrown

\* a failure was raised at the visited node path
RaisedAt(path) == OwnFailure(NodeAt(formula, path))

KwThrows == kw[<<"alice", "spam">>] = "throw"

\* f with every node that itself raises replaced by the constant false leaf
RECURSIVE ReplaceFailing(_)
ReplaceFailing(f) ==
    IF OwnFailure(f) THEN False
    ELSE CASE TypeOf(f) \in {"and", "or"} ->
                [type |-> f.type,
                 values |-> [i \in 1..Len(f.values) |->
                                ReplaceFailing(f.values[i])]]
           [] TypeOf(f) = "not" -> Not(ReplaceFailing(Child(f, 1)))
           [] OTHER -> f

----------------------------------------------------------------------------
(* C1 *)

\* C1 (as stated): whenever a failure is raised at any node visited during
\* the evaluation, whatever encloses that node, the top-level evalcond
\* returns false.
C1_AnyFailureGivesFalse ==
    (Ran /\ \E i \in 1..Len(visited) : RaisedAt(visited[i]))
        => outcome = "resolved" /\ result = FALSE

\* C1 (amended): a failure raised at a node that is the root, or that only
\* 'and' nodes enclose, makes the top-level evalcond return false.
C1_FailureUnderAndGivesFalse ==
    (Ran /\ \E i \in 1..Len(visited) :
                /\ RaisedAt(visited[i])
                /\ \A n \in 0..(Len(visited[i]) - 1) :
                      TypeOf(NodeAt(formula, SubSeq(visited[i], 1, n))) = "and")
        => outcome = "resolved" /\ result = FALSE

C1_Witness ==
    /\ Ran
    /\ formula = And(<<True, KwLeaf>>)
    /\ KwThrows
    /\ visited = << <<>>, <<1>>, <<2>> >>
    /\ result = FALSE

----------------------------------------------------------------------------
(* C2 *)

\* C2: evalcond never lets an exception escape: once the request has the
\* formula, the user and the roles, it resolves with a boolean and is never
\* rejected, also when nodes of the formula raise failures.
C2_EvalcondTotal ==
    /\ Ran => Done /\ outcome = "resolved" /\ error = "" /\ result \in BOOLEAN
    /\ pc = "getRoles" =>
          ~evalcond(subject, user, RoleDb[subject.userId], formula, <<>>).thrown

C2_Witness ==
    /\ Ran
    /\ outcome = "resolved"
    /\ \E i \in 1..Len(visited) : Len(visited[i]) > 0 /\ RaisedAt(visited[i])

----------------------------------------------------------------------------
(* C3 *)

Lookups == {"findUserById", "getUserRoles", "evalcond"}

\* C3: with no formula configured the request resolves to false and calls
\* neither findUserById nor getUserRoles nor evalcond; every configured
\* formula, the constant leaves included, goes through the lookups and the
\* evaluator.
C3_UnsetFastPath ==
    /\ store = Unset =>
          /\ \A i \in 1..Len(calls) : calls[i] \notin Lookups
          /\ pc \in {"fetch", "done"}
          /\ (Done /\ raised = "") => outcome = "resolved" /\ result = FALSE
    /\ (store # Unset /\ Done /\ outcome = "resolved") =>
          calls = <<"fetch", "findUserById", "getUserRoles", "evalcond">>

C3_Witness ==
    /\ formula = Unset
    /\ Done
    /\ outcome = "resolved"
    /\ result = FALSE
    /\ calls = <<"fetch">>

----------------------------------------------------------------------------
(* C4 *)

GateOrder == <<"fetch", "findUserById", "getUserRoles">>

\* C4: a failure of the configuration fetch, the user lookup or the role
\* lookup rejects the request with that same failure: no boolean verdict,
\* no retry, and no later step (the failing call is the last call made).
C4_CollaboratorFailurePropagates ==
    raised # "" =>
        /\ Done
        /\ outcome = "rejected"
        /\ error = raised
        /\ result = FALSE
        /\ visited = <<>>
        /\ Len(calls) \in 1..Len(GateOrder)
        /\ calls = SubSeq(GateOrder, 1, Len(calls))

C4_Witness ==
    /\ raised \in Errors
    /\ outcome = "rejected"
    /\ calls = <<"fetch", "findUserById">>

----------------------------------------------------------------------------
(* C5 *)

\* C5: evalcond of not(f) is the negation of evalcond of f on the same
\* inputs, also when the evaluation of f raises a failure.
C5_NotNegates ==
    (Ran /\ TypeOf(formula) = "not" /\ Has(formula, "value"))
        => result = ~Eval(formula.value).val

C5_Witness ==
    /\ Ran
    /\ formula = Not(KwLeaf)
    /\ KwThrows
    /\ result = TRUE

----------------------------------------------------------------------------
(* C6 *)

\* C6: and(children) is true iff every child evaluates to true, and
\* or(children) is true iff some child evaluates to true (and([]) is true,
\* or([]) is false).
C6_AndAllOrAny ==
    /\ (Ran /\ TypeOf(formula) = "and" /\ Has(formula, "values")) =>
          result = \A i \in 1..Len(formula.values) : Eval(formula.values[i]).val
    /\ (Ran /\ TypeOf(formula) = "or" /\ Has(formula, "values")) =>
          result = \E i \in 1..Len(formula.values) : Eval(formula.values[i]).val

C6_Witness ==
    /\ Ran
    /\ TypeOf(formula) = "or"
    /\ Has(formula, "values")
    /\ Len(formula.values) = 2
    /\ ~Eval(formula.values[1]).val
    /\ Eval(formula.values[2]).val
    /\ result = TRUE

----------------------------------------------------------------------------
(* C7 *)

\* C7: children are evaluated left to right with short-circuit: a child of an
\* 'and' is evaluated only after all its left siblings were evaluated and
\* were true, a child of an 'or' only after all its left siblings were
\* evaluated and were false.
C7_ShortCircuit ==
    Ran => \A k \in 1..Len(visited) :
             LET path == visited[k]
                 parent == NodeAt(formula, Front(path))
             IN  (path # <<>> /\ TypeOf(parent) \in {"and", "or"}) =>
                    \A j \in 1..(Last(path) - 1) :
                       LET sibling == Append(Front(path), j)
                       IN  /\ \E m \in 1..(k - 1) : visited[m] = sibling
                           /\ Eval(parent.values[j]).val
                                 = (TypeOf(parent) = "and")

C7_Witness ==
    /\ Ran
    /\ formula = And(<<False, KwLeaf>>)
    /\ KwThrows
    /\ visited = << <<>>, <<1>> >>
    /\ result = FALSE

----------------------------------------------------------------------------
(* C8 *)

NoFiles == ~Has(subject, "files") \/ subject.files = <<>>

\* C8 (as stated): on a subject with no files (list absent or empty)
\* hasFileSizeLessThan is true and hasFileSizeMoreThanOrEq is false.
C8_NoFilesDefaults ==
    (Ran /\ NoFiles) =>
        /\ TypeOf(formula) = "hasFileSizeLessThan" => result = TRUE
        /\ TypeOf(formula) = "hasFileSizeMoreThanOrEq" => result = FALSE

\* C8 (amended): with the file list absent hasFileSizeLessThan is true and
\* hasFileSizeMoreThanOrEq is false; with the list present (empty included)
\* each is true iff some file's size is below, respectively at or above, the
\* threshold, so both are false on an empty list.
C8_FileSize ==
    Ran =>
        /\ TypeOf(formula) = "hasFileSizeLessThan" =>
              result = IF Has(subject, "files")
                       THEN \E i \in 1..Len(subject.files) :
                               subject.files[i].size < formula.size
                       ELSE TRUE
        /\ TypeOf(formula) = "hasFileSizeMoreThanOrEq" =>
              result = IF Has(subject, "files")
                       THEN \E i \in 1..Len(subject.files) :
                               subject.files[i].size >= formula.size
                       ELSE FALSE

C8_Witness ==
    /\ Ran
    /\ TypeOf(formula) = "hasFileSizeLessThan"
    /\ ~Has(subject, "files")
    /\ result = TRUE

----------------------------------------------------------------------------
(* C9 *)

NotCatalogued(f) == TypeOf(f) \notin LeafKinds \cup StructuralKinds

NoChildList(f) == TypeOf(f) \in {"and", "or"} /\ ~Has(f, "values")

NoChild(f) == TypeOf(f) = "not" /\ ~Has(f, "value")

\* C9 (as stated): a node of an uncatalogued kind, or a malformed node of a
\* catalogued kind, evaluates to false and never raises.
C9_MalformedIsFalse ==
    (Ran /\ (NotCatalogued(formula) \/ NoChildList(formula) \/ NoChild(formula)))
        => outcome = "resolved" /\ result = FALSE

\* C9 (amended): a node of an uncatalogued kind, or an 'and'/'or' node without
\* a child list, evaluates to false and never raises, so not(unrecognized) is
\* true and or([unrecognized, x]) is the result of x; a 'not' node without a
\* child never raises and evaluates to true.
C9_UnrecognizedIsFalse ==
    Ran =>
        /\ outcome = "resolved"
        /\ (NotCatalogued(formula) \/ NoChildList(formula)) => result = FALSE
        /\ NoChild(formula) => result = TRUE
        /\ (TypeOf(formula) = "not" /\ Has(formula, "value")
              /\ formula.value # Undefined
              /\ (NotCatalogued(formula.value) \/ NoChildList(formula.value)))
              => result = TRUE
        /\ (TypeOf(formula) = "or" /\ Has(formula, "values")
              /\ Len(formula.values) = 2
              /\ formula.values[1] # Undefined
              /\ (NotCatalogued(formula.values[1])
                    \/ NoChildList(formula.values[1])))
              => result = Eval(formula.values[2]).val

C9_Witness ==
    /\ Ran
    /\ formula = Or(<<Unrecognized, True>>)
    /\ result = TRUE

----------------------------------------------------------------------------
(* C10 *)

\* C10: every evalcond call has its own failure boundary: a node that raises
\* yields false to its parent, so replacing every raising node by the
\* constant false leaf leaves the top-level verdict unchanged.
C10_PerCallBoundary ==
    Ran => /\ outcome = "resolved"
           /\ result = Eval(ReplaceFailing(formula)).val

C10_Witness ==
    /\ Ran
    /\ formula = Or(<<KwLeaf, True>>)
    /\ KwThrows
    /\ result = TRUE

====
